---- MODULE Spec2Model ----
(***************************************************************************)
(* Model of the 2-bit packed k-mer of src/data_structures/kmer.rs: the     *)
(* Kmer value (k, sequence), its encode/decode pair, the pure and in-place *)
(* complement / reverse-complement operations, index, the BitXor and Not   *)
(* operators and the KmerIter iterator.                                    *)
(*                                                                         *)
(* A string is a sequence of one-letter strings, a cell is a u8 in 0..255. *)
(* A call's outcome is the record ret = [op, arg, ok, val]; a Rust panic   *)
(* is ok = FALSE with the panic's message in val.                          *)
(***************************************************************************)
EXTENDS Integers, Sequences, FiniteSets, TLC

VARIABLES
    kmer,       \* the Kmer under test: [k, sequence]
    src,        \* the literal kmer was constructed from
    hist,       \* the in-place mutators applied to kmer, in order
    rhs,        \* the right operand of ^: [k, sequence]
    rsrc,       \* the literal rhs was constructed from
    rhist,      \* the in-place mutators applied to rhs, in order
    ret,        \* outcome of the last call
    iter,       \* the KmerIter: [active, kmer, position, nucleotide]
    yielded,    \* the items next() has returned inside Some, in order
    exhausted,  \* next() has returned None at least once
    moved       \* kmer was taken by value (into_iter, bitxor)

vars == <<kmer, src, hist, rhs, rsrc, rhist, ret, iter, yielded, exhausted, moved>>

----------------------------------------------------------------------------
(* Bounds *)

MaxLen == 5        \* longest literal enumerated exhaustively
MaxOps == 2        \* in-place mutators applied to one Kmer
MaxXorLen == 2     \* longest literal of either operand of ^

----------------------------------------------------------------------------
(* Inputs *)

Nucleotides == {"A", "G", "C", "T"}

Literals(n) == UNION {[1..m -> Nucleotides] : m \in 0..n}

ATGC == <<"A", "T", "G", "C">>

\* the literal of tests::test_vmer_instantiations / test_nucleotide_iterator
TestLiteral == ATGC \o ATGC \o ATGC \o ATGC \o ATGC \o ATGC

\* the reverse-complement example literal
ExampleLiteral == <<"A", "A", "G", "G", "T", "T", "C", "C">>

Inputs == Literals(MaxLen) \cup {TestLiteral, ExampleLiteral}

----------------------------------------------------------------------------
(* u8 arithmetic *)

RECURSIVE Pow2(_)
Pow2(e) == IF e = 0 THEN 1 ELSE 2 * Pow2(e - 1)

\* !x on a u8
NotU8(x) == 255 - x

RECURSIVE BitsAnd(_, _, _)
BitsAnd(a, b, n) ==
    IF n = 0 THEN 0
    ELSE (IF a % 2 = 1 /\ b % 2 = 1 THEN 1 ELSE 0)
         + 2 * BitsAnd(a \div 2, b \div 2, n - 1)

\* a & b on u8
AndU8(a, b) == BitsAnd(a, b, 8)

RECURSIVE BitsXor(_, _, _)
BitsXor(a, b, n) ==
    IF n = 0 THEN 0
    ELSE (IF a % 2 # b % 2 THEN 1 ELSE 0)
         + 2 * BitsXor(a \div 2, b \div 2, n - 1)

\* a ^ b on u8
XorU8(a, b) == BitsXor(a, b, 8)

\* a << s on u8, s < 8: the bits shifted past bit 7 are dropped
ShlU8(a, s) == (a * Pow2(s)) % 256

\* a >> s on u8
ShrU8(a, s) == a \div Pow2(s)

----------------------------------------------------------------------------
(* Outcomes *)

Ok(op, arg, val) == [op |-> op, arg |-> arg, ok |-> TRUE, val |-> val]

Panic(op, arg, msg) == [op |-> op, arg |-> arg, ok |-> FALSE, val |-> msg]

----------------------------------------------------------------------------
(* Kmer::encode *)

\* what one match arm adds to bit_seq for the i-th nucleotide of a chunk.
\* The sum over a chunk is at most 255, so the u8 additions never overflow.
EncodeArm(nucleotide, i) ==
    CASE nucleotide = "T" -> Pow2((i * 2) + 1) + Pow2(i * 2)
      [] nucleotide = "A" -> 0
      [] nucleotide = "G" -> Pow2(i * 2)
      [] nucleotide = "C" -> Pow2((i * 2) + 1)

\* the inner loop: fold a chunk of at most 4 nucleotides into one cell
RECURSIVE EncodeChunk(_, _, _)
EncodeChunk(chunk, i, bit_seq) ==
    IF i >= Len(chunk) THEN bit_seq
    ELSE EncodeChunk(chunk, i + 1, bit_seq + EncodeArm(chunk[i + 1], i))

\* the outer loop over byte_seq.chunks(4); each cell is PUSHED onto sequence
RECURSIVE EncodeChunks(_, _, _)
EncodeChunks(sequence, byte_seq, start) ==
    IF start > Len(byte_seq) THEN sequence
    ELSE LET stop == IF start + 3 <= Len(byte_seq) THEN start + 3 ELSE Len(byte_seq)
             cell == EncodeChunk(SubSeq(byte_seq, start, stop), 0, 0)
         IN  EncodeChunks(Append(sequence, cell), byte_seq, start + 4)

\* self.encode(byte_seq): self with the new cells appended
encode(self, byte_seq) ==
    [self EXCEPT !.sequence = EncodeChunks(self.sequence, byte_seq, 1)]

new(len, byte_seq) == encode([k |-> len, sequence |-> <<>>], byte_seq)

from_literal(str_literal) == new(Len(str_literal), str_literal)

----------------------------------------------------------------------------
(* Kmer::decode *)

DecodeArm(rem) ==
    CASE rem = 3 -> "T"
      [] rem = 0 -> "A"
      [] rem = 1 -> "G"
      [] rem = 2 -> "C"

\* DecodeCell with the length test off by one (`counter > self.k`)
RECURSIVE DecodeCellLate(_, _, _, _, _)
DecodeCellLate(k, div, j, counter, byte_seq) ==
    IF j = 4 THEN [counter |-> counter, byte_seq |-> byte_seq]
    ELSE LET rem == div % 4
             pushed == Append(byte_seq, DecodeArm(rem))
             counted == counter + 1
         IN  IF counted > k
             THEN [counter |-> counted, byte_seq |-> pushed]
             ELSE DecodeCellLate(k, div \div 4, j + 1, counted, pushed)

\* the inner loop `for _j in 0..4` over one cell; `break` leaves this loop only
RECURSIVE DecodeCell(_, _, _, _, _)
DecodeCell(k, div, j, counter, byte_seq) ==
    IF j = 4 THEN [counter |-> counter, byte_seq |-> byte_seq]
    ELSE LET rem == div % 4
             pushed == Append(byte_seq, DecodeArm(rem))
             counted == counter + 1
         IN  IF counted >= k
             THEN [counter |-> counted, byte_seq |-> pushed]
             ELSE DecodeCell(k, div \div 4, j + 1, counted, pushed)

\* the outer loop `for mer in self.sequence.iter()`: it visits every cell
RECURSIVE DecodeCells(_, _, _, _, _)
DecodeCells(k, sequence, c, counter, byte_seq) ==
    IF c > Len(sequence) THEN byte_seq
    ELSE LET r == DecodeCell(k, sequence[c], 0, counter, byte_seq)
         IN  DecodeCells(k, sequence, c + 1, r.counter, r.byte_seq)

decode(self) == DecodeCells(self.k, self.sequence, 1, 0, <<>>)

----------------------------------------------------------------------------
(* Not, complement, reverse complement *)

\* impl Not for Kmer
not(self) ==
    [k |-> self.k,
     sequence |-> [i \in 1..Len(self.sequence) |-> NotU8(self.sequence[i])]]

\* .chars().rev().collect()
Rev(s) == [i \in 1..Len(s) |-> s[Len(s) + 1 - i]]

\* make_complement that returns the re-encoded Kmer without negating it
make_complement_unnegated(self) == new(self.k, decode(self))

make_complement(self) == not(new(self.k, decode(self)))

complement(self) ==
    [self EXCEPT !.sequence = [i \in 1..Len(self.sequence) |-> NotU8(self.sequence[i])]]

\* make_reverse_complement that forgets to reverse the decoded string
make_reverse_complement_unreversed(self) == not(from_literal(decode(self)))

make_reverse_complement(self) == not(from_literal(Rev(decode(self))))

reverse_complement(self) == complement(encode(self, Rev(decode(self))))

----------------------------------------------------------------------------
(* index, byte_to_nuc, nuc_to_byte *)

\* index that shifts by position % 4 bits instead of 2 * (position % 4)
index_halfshift(self, position) ==
    IF self.k < position
    THEN Panic("index", position, "Index is greater than kmer length!")
    ELSE LET bit_mask == 3
             shift == position % 4
         IN  IF position \div 4 >= Len(self.sequence)
             THEN Panic("index", position, "index out of bounds")
             ELSE Ok("index", position,
                     ShrU8(AndU8(self.sequence[(position \div 4) + 1],
                                 ShlU8(bit_mask, shift)), shift))

index(self, position) ==
    IF self.k < position
    THEN Panic("index", position, "Index is greater than kmer length!")
    ELSE LET bit_mask == 3
             shift == 2 * (position % 4)
         IN  IF position \div 4 >= Len(self.sequence)
             THEN Panic("index", position, "index out of bounds")
             ELSE Ok("index", position,
                     ShrU8(AndU8(self.sequence[(position \div 4) + 1],
                                 ShlU8(bit_mask, shift)), shift))

byte_to_nuc(byte) ==
    CASE byte = 0 -> "A"
      [] byte = 1 -> "G"
      [] byte = 2 -> "C"
      [] byte = 3 -> "T"
      [] OTHER -> "panic: Non-valid nucleotide detected!"

nuc_to_byte(nuc) ==
    CASE nuc = "A" -> 0
      [] nuc = "G" -> 1
      [] nuc = "C" -> 2
      [] nuc = "T" -> 3
      [] OTHER -> 255

----------------------------------------------------------------------------
(* impl BitXor for Kmer *)

bitxor(self, other) ==
    IF self.k # other.k
    THEN Panic("bitxor", 0, "assertion failed: left == right")
    ELSE IF Len(self.sequence) > Len(other.sequence)
         THEN Panic("bitxor", 0, "index out of bounds")
         ELSE Ok("bitxor", 0,
                 [k |-> self.k,
                  sequence |-> [i \in 1..Len(self.sequence) |->
                                   XorU8(self.sequence[i], other.sequence[i])]])

----------------------------------------------------------------------------
(* KmerIter *)

NoKmer == [k |-> 0, sequence |-> <<>>]

NoIter == [active |-> FALSE, kmer |-> NoKmer, position |-> 0, nucleotide |-> 0]

into_iter(self) == [active |-> TRUE, kmer |-> self, position |-> 0, nucleotide |-> 0]

\* next that advances position before it reads the nucleotide
next_advance_first(it) ==
    IF it.position = it.kmer.k
    THEN [iter |-> it, ret |-> Ok("next", it.position, <<>>)]
    ELSE LET r == index(it.kmer, it.position + 1)
         IN  IF ~r.ok
             THEN [iter |-> it, ret |-> Panic("next", it.position, r.val)]
             ELSE [iter |-> [it EXCEPT !.nucleotide = r.val,
                                       !.position = it.position + 1],
                   ret |-> Ok("next", it.position, <<r.val>>)]

\* KmerIter::next: the iterator afterwards and what the call returns;
\* None is val = <<>>, Some(v) is val = <<v>>
next(it) ==
    IF it.position = it.kmer.k
    THEN [iter |-> it, ret |-> Ok("next", it.position, <<>>)]
    ELSE LET r == index(it.kmer, it.position)
         IN  IF ~r.ok
             THEN [iter |-> it, ret |-> Panic("next", it.position, r.val)]
             ELSE [iter |-> [it EXCEPT !.nucleotide = r.val,
                                       !.position = it.position + 1],
                   ret |-> Ok("next", it.position, <<r.val>>)]

----------------------------------------------------------------------------
(* State machine *)

Fresh == Ok("from_literal", 0, 0)

Init ==
    /\ src \in Inputs
    /\ kmer = from_literal(src)
    /\ hist = <<>>
    /\ rsrc = <<>>
    /\ rhs = from_literal(rsrc)
    /\ rhist = <<>>
    /\ ret = Fresh
    /\ iter = NoIter
    /\ yielded = <<>>
    /\ exhausted = FALSE
    /\ moved = FALSE

\* let s = x.decode();
Decode ==
    /\ ~moved
    /\ ret' = Ok("decode", 0, decode(kmer))
    /\ UNCHANGED <<kmer, src, hist, rhs, rsrc, rhist, iter, yielded, exhausted, moved>>

\* let y = x.make_complement();
MakeComplement ==
    /\ ~moved
    /\ ret' = Ok("make_complement", 0, make_complement(kmer))
    /\ UNCHANGED <<kmer, src, hist, rhs, rsrc, rhist, iter, yielded, exhausted, moved>>

\* let y = x.make_reverse_complement();
MakeReverseComplement ==
    /\ ~moved
    /\ ret' = Ok("make_reverse_complement", 0, make_reverse_complement(kmer))
    /\ UNCHANGED <<kmer, src, hist, rhs, rsrc, rhist, iter, yielded, exhausted, moved>>

\* x.complement();
Complement ==
    /\ ~moved
    /\ Len(hist) < MaxOps
    /\ kmer' = complement(kmer)
    /\ hist' = Append(hist, "complement")
    /\ ret' = Ok("complement", 0, 0)
    /\ UNCHANGED <<src, rhs, rsrc, rhist, iter, yielded, exhausted, moved>>

\* x.reverse_complement();
ReverseComplement ==
    /\ ~moved
    /\ Len(hist) < MaxOps
    /\ kmer' = reverse_complement(kmer)
    /\ hist' = Append(hist, "reverse_complement")
    /\ ret' = Ok("reverse_complement", 0, 0)
    /\ UNCHANGED <<src, rhs, rsrc, rhist, iter, yielded, exhausted, moved>>

\* let c = x.index(position);
Index ==
    /\ ~moved
    /\ \E position \in 0..(kmer.k + 1) : ret' = index(kmer, position)
    /\ UNCHANGED <<kmer, src, hist, rhs, rsrc, rhist, iter, yielded, exhausted, moved>>

\* let it = x.into_iter();   x is moved into the iterator
IntoIter ==
    /\ ~moved
    /\ iter' = into_iter(kmer)
    /\ moved' = TRUE
    /\ ret' = Ok("into_iter", 0, 0)
    /\ UNCHANGED <<kmer, src, hist, rhs, rsrc, rhist, yielded, exhausted>>

\* it.next();
Next_ ==
    /\ iter.active
    /\ LET r == next(iter)
       IN  /\ iter' = r.iter
           /\ ret' = r.ret
           /\ yielded' = IF r.ret.ok /\ r.ret.val # <<>>
                         THEN Append(yielded, r.ret.val[1]) ELSE yielded
           /\ exhausted' = (exhausted \/ (r.ret.ok /\ r.ret.val = <<>>))
    /\ UNCHANGED <<kmer, src, hist, rhs, rsrc, rhist, moved>>

Next ==
    \/ Decode
    \/ MakeComplement
    \/ MakeReverseComplement
    \/ Complement
    \/ ReverseComplement
    \/ Index
    \/ IntoIter
    \/ Next_

Spec == Init /\ [][Next]_vars

----------------------------------------------------------------------------
(* Two Kmers and the ^ operator *)

InitXor ==
    /\ src \in Literals(MaxXorLen)
    /\ rsrc \in Literals(MaxXorLen)
    /\ kmer = from_literal(src)
    /\ rhs = from_literal(rsrc)
    /\ hist = <<>>
    /\ rhist = <<>>
    /\ ret = Fresh
    /\ iter = NoIter
    /\ yielded = <<>>
    /\ exhausted = FALSE
    /\ moved = FALSE

\* y.complement();
ComplementRhs ==
    /\ ~moved
    /\ Len(rhist) < MaxOps
    /\ rhs' = complement(rhs)
    /\ rhist' = Append(rhist, "complement")
    /\ ret' = Ok("complement", 0, 0)
    /\ UNCHANGED <<kmer, src, hist, rsrc, iter, yielded, exhausted, moved>>

\* y.reverse_complement();
ReverseComplementRhs ==
    /\ ~moved
    /\ Len(rhist) < MaxOps
    /\ rhs' = reverse_complement(rhs)
    /\ rhist' = Append(rhist, "reverse_complement")
    /\ ret' = Ok("reverse_complement", 0, 0)
    /\ UNCHANGED <<kmer, src, hist, rsrc, iter, yielded, exhausted, moved>>

\* let z = x ^ y;   both operands are moved
Xor ==
    /\ ~moved
    /\ ret' = bitxor(kmer, rhs)
    /\ moved' = TRUE
    /\ UNCHANGED <<kmer, src, hist, rhs, rsrc, rhist, iter, yielded, exhausted>>

NextXor ==
    \/ Complement
    \/ ReverseComplement
    \/ ComplementRhs
    \/ ReverseComplementRhs
    \/ Xor

SpecXor == InitXor /\ [][NextXor]_vars

----------------------------------------------------------------------------
(* Properties *)

\* Watson-Crick pairing A<->T, G<->C
Watson(c) ==
    CASE c = "A" -> "T"
      [] c = "T" -> "A"
      [] c = "G" -> "C"
      [] c = "C" -> "G"

CeilDiv4(n) == (n + 3) \div 4

\* C1: decoding a freshly constructed Kmer gives back the literal it was
\* constructed from, for every length including 0 and lengths that are not
\* a multiple of 4.
RoundTrip ==
    (hist = <<>> /\ ret.op = "decode") => (ret.ok /\ ret.val = src)

RoundTripWitness ==
    /\ hist = <<>> /\ ret.op = "decode"
    /\ Len(src) = 5 /\ ret.val = src

\* C2: after construction and any sequence of complement() and
\* reverse_complement() calls, sequence has ceil(k / 4) cells and k is the
\* length of the literal.
PackingInvariant ==
    /\ kmer.k = Len(src)
    /\ Len(kmer.sequence) = CeilDiv4(kmer.k)

\* C3: make_reverse_complement() of a freshly constructed Kmer decodes to a
\* string of the same length whose i-th character pairs with the character
\* i places from the end of the literal; AAGGTTCC gives GGAACCTT.
ReverseComplementIsReversedComplement ==
    (hist = <<>> /\ ret.op = "make_reverse_complement") =>
        LET d == decode(ret.val)
            n == Len(src)
        IN  /\ ret.val.k = n
            /\ Len(d) = n
            /\ \A i \in 1..n : d[i] = Watson(src[n + 1 - i])
            /\ (src = ExampleLiteral =>
                    d = <<"G", "G", "A", "A", "C", "C", "T", "T">>)

ReverseComplementWitness ==
    /\ hist = <<>> /\ ret.op = "make_reverse_complement"
    /\ src = ExampleLiteral
    /\ decode(ret.val) = <<"G", "G", "A", "A", "C", "C", "T", "T">>

\* C4: after one reverse_complement() on a freshly constructed Kmer, the
\* Kmer (k and cells) equals what make_reverse_complement() returns for the
\* freshly constructed Kmer.
InPlaceAgreesWithPure ==
    (hist = <<"reverse_complement">>) =>
        kmer = make_reverse_complement(from_literal(src))

\* C5: make_complement() of a freshly constructed Kmer decodes to a string
\* of the same length whose i-th character pairs with the i-th character of
\* the literal; AGCT gives TCGA.
ComplementIsBaseWise ==
    (hist = <<>> /\ ret.op = "make_complement") =>
        LET d == decode(ret.val)
            n == Len(src)
        IN  /\ ret.val.k = n
            /\ Len(d) = n
            /\ \A i \in 1..n : d[i] = Watson(src[i])
            /\ (src = <<"A", "G", "C", "T">> => d = <<"T", "C", "G", "A">>)

ComplementWitness ==
    /\ hist = <<>> /\ ret.op = "make_complement"
    /\ Len(src) = 5
    /\ Len(decode(ret.val)) = 5
    /\ decode(ret.val)[5] = Watson(src[5])

\* C6: after construction and any sequence of complement() and
\* reverse_complement() calls, decode() returns exactly k characters.
DecodeStopsAtLength ==
    (ret.op = "decode") => Len(ret.val) = kmer.k

\* C7: index(position) with position >= k never returns a code; it fails.
IndexOutOfRangeFails ==
    (ret.op = "index" /\ ret.arg >= kmer.k) => ~ret.ok

\* C8: for a freshly constructed Kmer and a position below k, index returns
\* (sequence[position / 4] >> (2 * (position % 4))) & 3, which is the code of
\* the literal's character at that position (A=0, G=1, C=2, T=3), and
\* byte_to_nuc of it is the character decode() has at that position.
IndexAgreement ==
    (hist = <<>> /\ ret.op = "index" /\ ret.arg < kmer.k) =>
        LET p == ret.arg
        IN  /\ ret.ok
            /\ ret.val = (kmer.sequence[(p \div 4) + 1] \div Pow2(2 * (p % 4))) % 4
            /\ ret.val = nuc_to_byte(src[p + 1])
            /\ byte_to_nuc(ret.val) = decode(kmer)[p + 1]

IndexAgreementWitness ==
    /\ hist = <<>> /\ ret.op = "index" /\ ret.ok
    /\ ret.arg = 4 /\ kmer.k = 5
    /\ ret.val = 3 /\ src[5] = "T"

\* C9: x ^ y with equal k returns a Kmer of that k with ceil(k / 4) cells,
\* each the exclusive-or of the operands' cells; with different k it fails.
XorCellWise ==
    (ret.op = "bitxor") =>
        IF kmer.k = rhs.k
        THEN /\ ret.ok
             /\ ret.val.k = kmer.k
             /\ Len(ret.val.sequence) = CeilDiv4(kmer.k)
             /\ \A i \in 1..Len(ret.val.sequence) :
                    ret.val.sequence[i] = XorU8(kmer.sequence[i], rhs.sequence[i])
        ELSE ~ret.ok

\* C10: iterating a freshly constructed Kmer yields the codes of the
\* literal's k characters in order, each equal to index at its position;
\* position counts the yielded items and never exceeds k; None is returned
\* only after k items, and every next() after a None returns None.
IteratorYieldsEachIndexOnce ==
    (iter.active /\ hist = <<>>) =>
        /\ iter.position = Len(yielded)
        /\ iter.position <= iter.kmer.k
        /\ \A i \in 1..Len(yielded) :
               /\ index(iter.kmer, i - 1).ok
               /\ yielded[i] = index(iter.kmer, i - 1).val
               /\ yielded[i] = nuc_to_byte(src[i])
        /\ (ret.op = "next" => ret.ok)
        /\ ((ret.op = "next" /\ ret.val = <<>>) => Len(yielded) = iter.kmer.k)
        /\ (exhausted => (Len(yielded) = iter.kmer.k /\ ret.op = "next" /\ ret.val = <<>>))

IteratorWitness ==
    /\ iter.active /\ hist = <<>> /\ exhausted
    /\ src = TestLiteral
    /\ Len(yielded) = 24
    /\ yielded[2] = 3

====
